---- MODULE Spec2Model ----
(***************************************************************************)
(* Model of the duckduckgo crate's Browser (src/src/browser.rs): the HTTP  *)
(* request gateway, the vqd token extractor, the lite-search scraper, the  *)
(* image/news pagination loops and the instant-answer request.             *)
(*                                                                         *)
(* Text is a sequence of symbols: a symbol is one character, or a literal  *)
(* whose characters play no part (a URL, a header value). Option<T> is a   *)
(* record [some, val], a JSON value a tagged record [t, s, n].             *)
(***************************************************************************)
EXTENDS Integers, Sequences, FiniteSets, TLC

VARIABLES
    pc,          \* position of the running call: idle, vqd, page, done
    call,        \* the entry point called and its arguments
    page_params, \* images/news: Vec<(&str, String)> page_params
    results,     \* lite_search/images/news: the Vec results accumulator
    ret,         \* what the call returned: pending, ok(value) or err
    requests,    \* every HTTP request sent so far, in order
    served,      \* what upstream answered to each request, in order
    vqd,         \* get_vqd's result inside images/news
    output       \* the lines printed so far

vars == <<pc, call, page_params, results, ret, requests, served, vqd, output>>

(* ------------------------------ bounds -------------------------------- *)
MaxPages == 3    \* page requests of one images/news call
MaxLimit == 3    \* largest limit argument tried
MaxRows  == 3    \* table rows of a lite-search document
MaxTail  == 3    \* characters after "vqd=" in a landing-page body
MaxTopics == 2   \* related topics of an instant-answer document
MaxRecent == 1   \* page requests remembered of a call left to run

(* ------------------------------ options ------------------------------- *)
None == [some |-> FALSE, val |-> 0]
Some(x) == [some |-> TRUE, val |-> x]
Limits == {None} \cup {Some(l) : l \in 0..MaxLimit}

(* ------------------------------- text --------------------------------- *)
RECURSIVE SeqsUpTo(_, _)
SeqsUpTo(S, n) ==
    IF n = 0 THEN {<<>>}
    ELSE LET shorter == SeqsUpTo(S, n - 1)
         IN  shorter \cup {Append(s, c) : s \in {t \in shorter : Len(t) = n - 1}, c \in S}

StartsWithAt(s, pat, i) ==
    /\ i + Len(pat) - 1 <= Len(s)
    /\ \A k \in 1..Len(pat) : s[i + k - 1] = pat[k]

\* Positions at which pat occurs in s.
Occurrences(s, pat) == {i \in 1..Len(s) : StartsWithAt(s, pat, i)}

Min(S) == CHOOSE x \in S : \A y \in S : x <= y
Max(S) == CHOOSE x \in S : \A y \in S : x >= y

\* str::split(pat): the pieces between the non-overlapping occurrences of
\* pat, found left to right; always at least one piece.
RECURSIVE Split(_, _)
Split(s, pat) ==
    IF Occurrences(s, pat) = {} THEN <<s>>
    ELSE LET i == Min(Occurrences(s, pat))
         IN  <<SubSeq(s, 1, i - 1)>> \o Split(SubSeq(s, i + Len(pat), Len(s)), pat)

\* Iterator::nth(n) (zero-based) followed by unwrap_or("").
NthOrEmpty(pieces, n) == IF Len(pieces) >= n + 1 THEN pieces[n + 1] ELSE <<>>

(* ------------------------------- JSON ---------------------------------- *)
\* A JSON integer is kept in base 2^16, [neg, w2, w1, w0] standing for
\* (+/-)(w2 * 2^32 + w1 * 2^16 + w0) with w1, w0 < 2^16, since the values of
\* interest (2^32 and beyond) exceed the integers TLC computes with.
Int3(neg, w2, w1, w0) == [neg |-> neg, w2 |-> w2, w1 |-> w1, w0 |-> w0]
Small(k) == Int3(FALSE, 0, 0, k)

JAbsent == [t |-> "absent", s |-> <<>>, n |-> Small(0)]
JStr(s) == [t |-> "str", s |-> s, n |-> Small(0)]
JNum(n) == [t |-> "num", s |-> <<>>, n |-> n]
\* a value that is neither a string nor an integer: null, a boolean, a
\* float, an array or an object
JOther == [t |-> "other", s |-> <<>>, n |-> Small(0)]

\* Value::as_str().unwrap_or("")
AsStrOrEmpty(v) == IF v.t = "str" THEN v.s ELSE <<>>
\* A reading that also takes the digits of a string for a number.
AsU64Lenient(v) ==
    IF v.t = "num" /\ ~v.n.neg THEN v.n
    ELSE IF v.t = "str" /\ v.s = <<"7">> THEN Small(7)
    ELSE Small(0)

\* Value::as_u64().unwrap_or(0)
AsU64OrZero(v) == IF v.t = "num" /\ ~v.n.neg THEN v.n ELSE Small(0)
\* `as u32`: the value modulo 2^32
AsU32(n) == [n EXCEPT !.w2 = 0]

\* a <= b for magnitudes
MagLeq(a, b) ==
    \/ a.w2 < b.w2
    \/ a.w2 = b.w2 /\ a.w1 < b.w1
    \/ a.w2 = b.w2 /\ a.w1 = b.w1 /\ a.w0 <= b.w0

(* ------------------------- HTTP request gateway ------------------------ *)
SITE_ORIGIN == "https://duckduckgo.com/"
BASE_URL == "https://api.duckduckgo.com/"
LITE_URL == "https://lite.duckduckgo.com/lite/"
IMAGES_URL == "https://duckduckgo.com/i.js"
NEWS_URL == "https://duckduckgo.com/news.js"

Param(k, v) == [k |-> k, v |-> v]

\* A header set that lacks the Referer.
FixedHeadersNoReferer(user_agent) ==
    { <<"User-Agent", user_agent>>,
      <<"Accept", "application/json">>,
      <<"Accept-Language", "en-US,en;q=0.9">> }

\* The four .header(...) calls of Browser::request.
FixedHeaders(user_agent) ==
    { <<"User-Agent", user_agent>>,
      <<"Accept", "application/json">>,
      <<"Referer", SITE_ORIGIN>>,
      <<"Accept-Language", "en-US,en;q=0.9">> }

\* The request Browser::request builds.
BuildRequest(method, url, user_agent, params) ==
    [method |-> method, url |-> url, headers |-> FixedHeaders(user_agent),
     params |-> params]

\* A status test that lets client errors through.
ErrorForStatusServerOnly(status) == status >= 500 /\ status <= 599

\* reqwest's Response::error_for_status: Err for a client or server error
\* status (400..599), Ok(self) for every other status.
ErrorForStatus(status) == status >= 400 /\ status <= 599

\* Browser::request returns Ok(resp): send() succeeded and error_for_status
\* did not turn the response into an error.
RequestOk(resp) == resp.sent /\ ~ErrorForStatus(resp.status)

\* An answer of upstream: sent = FALSE is a transport failure of send().
Response(sent, status, readable, body) ==
    [sent |-> sent, status |-> status, readable |-> readable, body |-> body]
TransportFailure == Response(FALSE, 0, FALSE, <<>>)

Pending == [kind |-> "pending", value |-> <<>>, err |-> ""]
Ok(v) == [kind |-> "ok", value |-> v, err |-> ""]
Err(e) == [kind |-> "err", value |-> <<>>, err |-> e]
\* An error whose message is e followed by the formatted values of context.
ErrWith(e, context) == [kind |-> "err", value |-> context, err |-> e]

\* A line written to standard output.
Line(kind, n, text) == [line |-> kind, n |-> n, text |-> text]

\* The lines src/bin/main.rs prints for the list a backend returned: one
\* println! of three fields per record; nothing for a caller of the
\* library, and nothing when the call failed (`.await?`).
CliResultLine(fn, r) ==
    Line("result", 0,
         IF fn = "lite_search" THEN <<r.title, r.url, r.snippet>>
         ELSE IF fn = "images" THEN <<r.title, r.url, r.image>>
         ELSE <<r.date, r.title, r.url>>)
CliPrinted(fn, cli, returned) ==
    IF cli.bin = "bin" /\ returned.kind = "ok"
    THEN [i \in 1..Len(returned.value) |-> CliResultLine(fn, returned.value[i])]
    ELSE <<>>

(* ---------------------------- token extractor -------------------------- *)
IsDigit(c) == c \in {"0", "1", "2", "3", "4", "5", "6", "7", "8", "9"}
IsQuote(c) == c \in {"'", "\""}
\* the class [\d-]
IsTokenChar(c) == IsDigit(c) \/ c = "-"
\* `.` matches any character but a line feed
DotMatches(c) == c # "\n"

\* The longest run of [\d-] characters of s that starts at position p.
RECURSIVE TokenRun(_, _)
TokenRun(s, p) ==
    IF p <= Len(s) /\ IsTokenChar(s[p]) THEN <<s[p]>> \o TokenRun(s, p + 1) ELSE <<>>

\* Where the capture group of vqd=.?['"]?([\d-]+)['"]? starts, for a match
\* whose `vqd=` ends just before position p: the alternatives of the two
\* optional (greedy) items in the order the leftmost-first matcher prefers
\* them; 0 when none lets [\d-]+ match.
CaptureStart(s, p) ==
    LET dot == p <= Len(s) /\ DotMatches(s[p])
        starts == <<
            IF dot /\ p + 1 <= Len(s) /\ IsQuote(s[p + 1]) THEN p + 2 ELSE 0,
            IF dot THEN p + 1 ELSE 0,
            IF p <= Len(s) /\ IsQuote(s[p]) THEN p + 1 ELSE 0,
            p >>
        good == {k \in 1..4 : starts[k] # 0 /\ TokenRun(s, starts[k]) # <<>>}
    IN  IF good = {} THEN 0 ELSE starts[Min(good)]

\* A capture that does not ask for the `vqd=` prefix: the first run of
\* [\d-] characters anywhere in the text.
VqdCaptureAnyRun(text) ==
    LET hits == {i \in 1..Len(text) : IsTokenChar(text[i])}
    IN  IF hits = {} THEN None ELSE Some(TokenRun(text, Min(hits)))

\* re.captures(&text).and_then(|c| c.get(1)): group 1 of the leftmost match.
VqdCapture(text) ==
    LET pat == <<"v", "q", "d", "=">>
        hits == {i \in Occurrences(text, pat) : CaptureStart(text, i + Len(pat)) # 0}
    IN  IF hits = {} THEN None
        ELSE Some(TokenRun(text, CaptureStart(text, Min(hits) + Len(pat))))

(* ------------------------ image and news records ----------------------- *)
JsonItem(title, image, thumbnail, url, height, width, source, date, excerpt) ==
    [title |-> title, image |-> image, thumbnail |-> thumbnail, url |-> url,
     height |-> height, width |-> width, source |-> source, date |-> date,
     excerpt |-> excerpt]

\* Two elements of a "results" array: a well-formed one, and one with
\* missing and wrong-typed fields.
ItemA ==
    JsonItem(JStr(<<"a">>), JStr(<<"i">>), JStr(<<"t">>), JStr(<<"u">>),
             JNum(Small(7)), JNum(Small(9)), JStr(<<"s">>), JNum(Small(1)), JStr(<<"e">>))
ItemB ==
    JsonItem(JStr(<<"b">>), JAbsent, JNum(Small(1)), JStr(<<"u">>),
             JStr(<<"7">>), JAbsent, JAbsent, JStr(<<"n">>), JAbsent)

\* The ImageResult pushed for one element of "results".
ImageResult(item) ==
    [title |-> AsStrOrEmpty(item.title),
     image |-> AsStrOrEmpty(item.image),
     thumbnail |-> AsStrOrEmpty(item.thumbnail),
     url |-> AsStrOrEmpty(item.url),
     height |-> AsU32(AsU64OrZero(item.height)),
     width |-> AsU32(AsU64OrZero(item.width)),
     source |-> AsStrOrEmpty(item.source)]

\* A range test that takes every timestamp before 1970 for unrepresentable.
TimestampInRangeSince1970(ts) ==
    ~ts.neg /\ MagLeq(ts, Int3(FALSE, 1911, 39434, 27519))

\* chrono::Utc.timestamp_opt(ts, 0).single() is Some for the seconds chrono
\* can represent: -8334601228800 ..= 8210266876799.
TimestampInRange(ts) ==
    IF ts.neg THEN MagLeq(ts, Int3(TRUE, 1940, 36082, 4608))
    ELSE MagLeq(ts, Int3(FALSE, 1911, 39434, 27519))

\* The NewsResult pushed for one element of "results"; the date is the
\* rendering of the element's timestamp, or of the current time.
NewsResult(item) ==
    [date |-> IF item.date.t = "num" /\ TimestampInRange(item.date.n)
              THEN [of |-> "timestamp", ts |-> item.date.n]
              ELSE [of |-> "now", ts |-> Small(0)],
     title |-> AsStrOrEmpty(item.title),
     body |-> AsStrOrEmpty(item.excerpt),
     url |-> AsStrOrEmpty(item.url),
     image |-> IF item.image.t = "str" THEN Some(item.image.s) ELSE None,
     source |-> AsStrOrEmpty(item.source)]

Record(fn, item) == IF fn = "images" THEN ImageResult(item) ELSE NewsResult(item)

\* A limit test that lets one record too many through.
LimitReachedLate(limit, acc) == limit.some /\ Len(acc) > limit.val

\* limit.is_some_and(|l| results.len() >= l)
LimitReached(limit, acc) == limit.some /\ Len(acc) >= limit.val

RECURSIVE PushItems(_, _, _, _)

\* A loop that keeps one record, the latest.
PushItemsLatest(fn, acc, items, limit) ==
    IF items = <<>> THEN [acc |-> acc, returned |-> FALSE]
    ELSE LET pushed == <<Record(fn, Head(items))>>
         IN  IF LimitReached(limit, pushed)
             THEN [acc |-> pushed, returned |-> TRUE]
             ELSE PushItems(fn, pushed, Tail(items), limit)

\* A loop that inserts each record at the front of the accumulator.
PushItemsAtFront(fn, acc, items, limit) ==
    IF items = <<>> THEN [acc |-> acc, returned |-> FALSE]
    ELSE LET pushed == <<Record(fn, Head(items))>> \o acc
         IN  IF LimitReached(limit, pushed)
             THEN [acc |-> pushed, returned |-> TRUE]
             ELSE PushItems(fn, pushed, Tail(items), limit)

\* The `for item in array.iter()` loop: push the element's record, then
\* return from the call when the limit is reached.
PushItems(fn, acc, items, limit) ==
    IF items = <<>> THEN [acc |-> acc, returned |-> FALSE]
    ELSE LET pushed == Append(acc, Record(fn, Head(items)))
         IN  IF LimitReached(limit, pushed)
             THEN [acc |-> pushed, returned |-> TRUE]
             ELSE PushItems(fn, pushed, Tail(items), limit)

\* next.split("s=").nth(1).unwrap_or("")
Cursor(next) == NthOrEmpty(Split(next, <<"s", "=">>), 1)

(* ------------------------------ upstream ------------------------------- *)
Queries == {<<"r", "u", "s", "t">>}
UserAgents == {"firefox-ua"}

\* "results" of a page: absent or not an array, or an array.
NoArray == [arr |-> FALSE, items |-> <<>>]
Array(items) == [arr |-> TRUE, items |-> items]
ResultsFields == {NoArray, Array(<<>>), Array(<<ItemA>>), Array(<<ItemA, ItemB>>)}

\* Elements of every shape: each field read as text is a string, missing
\* or of another type; height and width are an integer, missing or a
\* string, or an integer at the edges of u32; "date" is an integer inside
\* or outside the seconds chrono represents, missing, a string or a float.
TextValues == {JStr(<<"a">>), JAbsent, JOther}
SizeValues == {JNum(Small(7)), JAbsent, JStr(<<"7">>)}
SizeEdgeValues ==
    {JNum(Small(0)), JNum(Int3(FALSE, 0, 65535, 65535)), JNum(Int3(FALSE, 1, 0, 0)),
     JNum(Int3(FALSE, 1, 0, 7)), JNum(Int3(TRUE, 0, 0, 7))}
DateValues ==
    {JNum(Small(1)), JNum(Int3(TRUE, 0, 0, 1)),
     JNum(Int3(FALSE, 1000, 0, 0)), JNum(Int3(FALSE, 4000, 0, 0)),
     JNum(Int3(TRUE, 1000, 0, 0)), JNum(Int3(TRUE, 4000, 0, 0)),
     JAbsent, JStr(<<"not-a-number">>), JOther}
ImageItems ==
    {JsonItem(title, image, thumbnail, url, height, width, source, JAbsent, JAbsent) :
         title \in TextValues, image \in TextValues, thumbnail \in TextValues,
         url \in TextValues, height \in SizeValues, width \in SizeValues,
         source \in TextValues}
    \cup {[ItemA EXCEPT !.height = h, !.width = w] :
              h \in SizeEdgeValues, w \in SizeEdgeValues}
NewsItems ==
    {JsonItem(title, image, JAbsent, url, JAbsent, JAbsent, source, date, excerpt) :
         title \in TextValues, image \in TextValues, url \in TextValues,
         source \in TextValues, date \in DateValues, excerpt \in TextValues}

\* "next" of a page: absent or not a string, or a string.
NoNext == [str |-> FALSE, val |-> <<>>]
NextStr(s) == [str |-> TRUE, val |-> s]
NextFields ==
    {NoNext, NextStr(<<"i", "?", "s", "=", "1">>),
     NextStr(<<"c", "a", "t", "s", "=", "1", "&", "s", "=", "2">>)}

PageDoc(res, next) == [json |-> TRUE, results |-> res, next |-> next]
NotJson == [json |-> FALSE, results |-> NoArray, next |-> NoNext]

PageResponses ==
    {TransportFailure, Response(TRUE, 404, TRUE, NotJson),
     Response(TRUE, 200, TRUE, NotJson), Response(TRUE, 200, FALSE, NotJson)}
    \cup {Response(TRUE, 200, TRUE, PageDoc(r, n)) : r \in ResultsFields, n \in NextFields}

\* A last page of one element of any shape, answered by the endpoint of fn.
ItemResponses(fn) ==
    {Response(TRUE, 200, TRUE, PageDoc(Array(<<item>>), NoNext)) :
         item \in IF fn = "images" THEN ImageItems ELSE NewsItems}

\* Landing-page bodies answered to the token request of images and news.
LandingBodies ==
    {<<"x">>, <<"v", "q", "d", "=", "\"", "4", "-", "1", "\"">>,
     <<"v", "q", "d", "=", "4", "-", "1", "&">>}
LandingResponses ==
    {TransportFailure, Response(TRUE, 500, TRUE, <<>>)}
    \cup {Response(TRUE, 200, TRUE, b) : b \in LandingBodies}

(* ------------------------------- get_vqd ------------------------------- *)
VqdRequest(query, user_agent) ==
    BuildRequest("GET", SITE_ORIGIN, user_agent, <<Param("q", query)>>)

\* A get_vqd that answers an empty token when the pattern does not match.
GetVqdResultOrEmpty(resp) ==
    IF ~RequestOk(resp) THEN Err("request")
    ELSE IF ~resp.readable THEN Err("body")
    ELSE IF ~VqdCapture(resp.body).some THEN Ok(<<>>)
    ELSE Ok(VqdCapture(resp.body).val)

\* What get_vqd returns for upstream's answer.
GetVqdResult(resp) ==
    IF ~RequestOk(resp) THEN Err("request")
    ELSE IF ~resp.readable THEN Err("body")
    ELSE IF ~VqdCapture(resp.body).some THEN Err("Missing vqd in response")
    ELSE Ok(VqdCapture(resp.body).val)

(* --------------------------- images and news --------------------------- *)
InitialPageParams(fn, query, region, safesearch, token) ==
    <<Param("q", query), Param("l", region), Param("vqd", token),
      Param("o", <<"json">>), Param("p", IF safesearch THEN <<"1">> ELSE <<"-1">>)>>
    \o (IF fn = "news" THEN <<Param("noamp", <<"1">>)>> ELSE <<>>)

PageUrl(fn) == IF fn = "images" THEN IMAGES_URL ELSE NEWS_URL

\* The command line of a run of one of the two binaries (bin names it:
\* "main" for src/main.rs, "bin" for src/bin/main.rs); NoCli when the
\* library is called by another program.
CliArgs(bin, user_agent, proxy, query, operators, safe, format, limit, backend) ==
    [bin |-> bin, user_agent |-> user_agent, proxy |-> proxy, query |-> query,
     operators |-> operators, safe |-> safe, format |-> format, limit |-> limit,
     backend |-> backend]
NoCli == CliArgs("none", "", "", <<>>, <<>>, FALSE, FALSE, 0, "Auto")

\* The arguments of a call; those an entry point does not take keep the
\* values below. client_user_agent is the default User-Agent the caller
\* configured on the reqwest::Client handed to Browser::new, if any; cli
\* is the command line when the caller is one of the binaries.
NoCall ==
    [fn |-> "none", method |-> "", query |-> <<>>, region |-> <<>>, operators |-> <<>>,
     safesearch |-> FALSE, limit |-> None, user_agent |-> "", detailed |-> FALSE,
     client_user_agent |-> None, cli |-> NoCli]

Init ==
    /\ pc = "idle"
    /\ call = NoCall
    /\ page_params = <<>>
    /\ results = <<>>
    /\ ret = Pending
    /\ requests = <<>>
    /\ served = <<>>
    /\ vqd = None
    /\ output = <<>>

\* images or news is entered with these arguments.
EnterPaged(fn, query, region, safesearch, limit, user_agent, cli) ==
    /\ call' = [NoCall EXCEPT !.fn = fn, !.query = query, !.region = region,
                              !.safesearch = safesearch, !.limit = limit,
                              !.user_agent = user_agent, !.cli = cli]
    /\ pc' = "vqd"
    /\ UNCHANGED <<page_params, results, ret, requests, served, vqd, output>>

\* A caller of the library enters images or news.
CallPaged ==
    /\ pc = "idle"
    /\ \E fn \in {"images", "news"}, q \in Queries, safe \in BOOLEAN,
          limit \in Limits, ua \in UserAgents :
          EnterPaged(fn, q, <<"wt-wt">>, safe, limit, ua, NoCli)

\* let vqd = self.get_vqd(query, user_agent).await?; and the set-up of
\* page_params and results.
FetchVqd ==
    /\ pc = "vqd"
    /\ \E resp \in LandingResponses :
          LET got == GetVqdResult(resp)
          IN  /\ requests' = Append(requests, VqdRequest(call.query, call.user_agent))
              /\ served' = Append(served, resp)
              /\ IF got.kind = "err"
                 THEN /\ ret' = got
                      /\ pc' = "done"
                      /\ UNCHANGED <<vqd, page_params>>
                 ELSE /\ vqd' = Some(got.value)
                      /\ page_params' = InitialPageParams(call.fn, call.query, call.region,
                                                          call.safesearch, got.value)
                      /\ pc' = "page"
                      /\ ret' = ret
    /\ UNCHANGED <<call, results, output>>

\* A decoding that takes any body for a document.
JsonDecodesAnything(resp) == TRUE

\* resp.json().await succeeds: the body arrives and is JSON.
JsonDecodes(resp) == resp.readable /\ resp.body.json

\* The page requests sent so far (the token request is the first request).
PageRequests == SubSeq(requests, 2, Len(requests))
PagesServed == SubSeq(served, 2, Len(served))

\* What the model remembers of a list that grows with every page: its
\* first `fixed` entries and the last `kept` of the others.
Recent(seq, fixed, kept) ==
    IF Len(seq) <= fixed + kept THEN seq
    ELSE SubSeq(seq, 1, fixed) \o SubSeq(seq, Len(seq) - kept + 1, Len(seq))

\* One iteration of the loop, answered by resp: the page request, the
\* decoding of the answer, the for loop over "results" and the
\* continuation on "next". When the call returns to src/bin/main.rs, the
\* list is printed. The request log, the answers and page_params remember
\* the last `kept` pages.
LoopIteration(resp, kept) ==
    /\    LET j == resp.body
              array == IF j.results.arr THEN j.results.items ELSE <<>>
              loop == PushItems(call.fn, results, array, call.limit)
              initial == Len(InitialPageParams(call.fn, call.query, call.region,
                                               call.safesearch, vqd.val))
          IN  /\ requests' = Recent(Append(requests, BuildRequest("GET", PageUrl(call.fn),
                                                           call.user_agent, page_params)), 1, kept)
              /\ served' = Recent(Append(served, resp), 1, kept)
              /\ IF ~RequestOk(resp)
                 THEN /\ ret' = Err("request")
                      /\ pc' = "done"
                      /\ UNCHANGED <<results, page_params>>
                 ELSE IF ~JsonDecodes(resp)
                 THEN /\ ret' = Err("json")
                      /\ pc' = "done"
                      /\ UNCHANGED <<results, page_params>>
                 ELSE /\ results' = loop.acc
                      /\ IF loop.returned
                         THEN /\ ret' = Ok(loop.acc)
                              /\ pc' = "done"
                              /\ UNCHANGED page_params
                         ELSE IF j.next.str
                         THEN /\ page_params' =
                                     Recent(Append(page_params,
                                                   Param("s", Cursor(j.next.val))), initial, kept)
                              /\ UNCHANGED <<ret, pc>>
                         ELSE /\ ret' = Ok(loop.acc)
                              /\ pc' = "done"
                              /\ UNCHANGED page_params
    /\ output' = output \o CliPrinted(call.fn, call.cli, ret')
    /\ UNCHANGED <<call, vqd>>

\* The loop of images and news, followed for at most MaxPages page
\* requests, all of them remembered. The answers to the first page request of a caller of the
\* library include the pages of ItemResponses.
FetchPage ==
    /\ pc = "page"
    /\ Len(PageRequests) < MaxPages
    /\ \E resp \in PageResponses
                    \cup (IF PageRequests = <<>> /\ call.cli = NoCli
                          THEN ItemResponses(call.fn) ELSE {}) :
          LoopIteration(resp, MaxPages)

(* --------------------- request and get_vqd, called directly ------------ *)
Methods == {"GET", "POST"}
Statuses == 100..599

\* Browser::request called by a user of the library.
CallRequest ==
    /\ pc = "idle"
    /\ \E m \in Methods, q \in Queries, ua \in UserAgents,
          resp \in {TransportFailure} \cup {Response(TRUE, st, TRUE, <<>>) : st \in Statuses} :
          /\ call' = [NoCall EXCEPT !.fn = "request", !.method = m, !.query = q,
                                    !.user_agent = ua]
          /\ requests' = Append(requests, BuildRequest(m, BASE_URL, ua, <<Param("test", q)>>))
          /\ served' = Append(served, resp)
          /\ ret' = IF RequestOk(resp) THEN Ok(<<resp.status>>) ELSE Err("request")
    /\ pc' = "done"
    /\ UNCHANGED <<page_params, results, vqd, output>>

\* Landing-page bodies: text with and without `vqd=`, followed by every
\* short tail over the characters the pattern tells apart, and the two
\* bodies of the documented examples.
TailChars == {"'", "\"", "-", "1", "2", "x", "\n"}
VqdEq == <<"v", "q", "d", "=">>
BodyHeads == {<<>>, <<"x">>, VqdEq, <<"x">> \o VqdEq, VqdEq \o <<"x">> \o VqdEq}
ExampleBodies ==
    {VqdEq \o <<"'", "1", "2", "3", "4", "5", "6", "7", "8", "9", "0", "'">>,
     VqdEq \o <<"-", "1", "2", "3", "4", "5">>}
VqdBodies ==
    {h \o t : h \in BodyHeads, t \in SeqsUpTo(TailChars, MaxTail)} \cup ExampleBodies

\* Browser::get_vqd called by a user of the library.
CallGetVqd ==
    /\ pc = "idle"
    /\ \E q \in Queries, ua \in UserAgents,
          resp \in {TransportFailure, Response(TRUE, 200, FALSE, <<>>)}
                   \cup {Response(TRUE, 200, TRUE, b) : b \in VqdBodies} :
          /\ call' = [NoCall EXCEPT !.fn = "get_vqd", !.query = q, !.user_agent = ua]
          /\ requests' = Append(requests, VqdRequest(q, ua))
          /\ served' = Append(served, resp)
          /\ ret' = GetVqdResult(resp)
    /\ pc' = "done"
    /\ UNCHANGED <<page_params, results, vqd, output>>

(* ------------------------------ lite_search ---------------------------- *)
\* A `table tr` row: its first anchor (if any) with its text and href
\* attribute, and its first td.result-snippet cell (if any).
Row(anchor, href, snippet) == [anchor |-> anchor, href |-> href, snippet |-> snippet]
RowKinds ==
    {Row(None, None, None),
     Row(Some(<<"t">>), None, Some(<<"n">>)),
     Row(Some(<<"t">>), Some(<<"h">>), None),
     Row(Some(<<"u">>), Some(<<"g">>), Some(<<"n">>))}
LiteDocs == SeqsUpTo(RowKinds, MaxRows)

RECURSIVE ScrapeRows(_, _, _)

\* A loop that also asks for a snippet cell before it keeps a row.
ScrapeRowsWithSnippet(acc, rows, limit) ==
    IF rows = <<>> THEN acc
    ELSE LET tr == Head(rows)
         IN  IF tr.anchor.some /\ tr.href.some /\ tr.snippet.some
             THEN LET pushed ==
                          Append(acc, [title |-> tr.anchor.val, url |-> tr.href.val,
                                       snippet |-> tr.snippet.val])
                  IN  IF LimitReached(limit, pushed) THEN pushed
                      ELSE ScrapeRows(pushed, Tail(rows), limit)
             ELSE ScrapeRows(acc, Tail(rows), limit)

\* The `for tr in doc.select(&sel)` loop.
ScrapeRows(acc, rows, limit) ==
    IF rows = <<>> THEN acc
    ELSE LET tr == Head(rows)
         IN  IF tr.anchor.some /\ tr.href.some
             THEN LET pushed ==
                          Append(acc, [title |-> tr.anchor.val, url |-> tr.href.val,
                                       snippet |-> IF tr.snippet.some THEN tr.snippet.val
                                                   ELSE <<>>])
                  IN  IF LimitReached(limit, pushed) THEN pushed
                      ELSE ScrapeRows(pushed, Tail(rows), limit)
             ELSE ScrapeRows(acc, Tail(rows), limit)

LiteRequest(query, region, user_agent) ==
    BuildRequest("POST", LITE_URL, user_agent, <<Param("q", query), Param("kl", region)>>)

LiteResponses ==
    {TransportFailure, Response(TRUE, 403, TRUE, <<>>), Response(TRUE, 200, FALSE, <<>>)}
    \cup {Response(TRUE, 200, TRUE, d) : d \in LiteDocs}

\* lite_search with these arguments, answered by resp.
DoLiteSearch(query, region, limit, user_agent, cli, resp) ==
    /\ call' = [NoCall EXCEPT !.fn = "lite_search", !.query = query, !.region = region,
                              !.limit = limit, !.user_agent = user_agent, !.cli = cli]
    /\ requests' = Append(requests, LiteRequest(query, region, user_agent))
    /\ served' = Append(served, resp)
    /\ IF ~RequestOk(resp)
       THEN /\ ret' = Err("Failed to send request to DuckDuckGo Lite")
            /\ UNCHANGED results
       ELSE IF ~resp.readable
       THEN /\ ret' = Err("Failed to read response body")
            /\ UNCHANGED results
       ELSE /\ results' = ScrapeRows(<<>>, resp.body, limit)
            /\ ret' = Ok(results')
    /\ output' = output \o CliPrinted("lite_search", cli, ret')
    /\ pc' = "done"
    /\ UNCHANGED <<page_params, vqd>>

\* Browser::lite_search called by a user of the library.
LiteSearch ==
    /\ pc = "idle"
    /\ \E q \in Queries, ua \in UserAgents, limit \in Limits, resp \in LiteResponses :
          DoLiteSearch(q, <<"wt-wt">>, limit, ua, NoCli, resp)

(* ------------------- instant answers: browse and printing -------------- *)
ORIGIN_PREFIX == "https://duckduckgo.com"

\* An Icon object of the document: "URL", "Height" and "Width" may each be
\* there or not.
RawIcon(url, height, width) == [url |-> url, height |-> height, width |-> width]
RawTopic(text, first_url, icon) == [text |-> text, first_url |-> first_url, icon |-> icon]
TopicKinds ==
    {RawTopic(Some(<<"t">>), Some(<<"u">>), Some(RawIcon(Some(<<"/", "i">>), TRUE, TRUE))),
     RawTopic(Some(<<"t">>), Some(<<"u">>), Some(RawIcon(Some(<<>>), TRUE, TRUE))),
     RawTopic(None, None, None),
     RawTopic(Some(<<"t">>), None, None),
     RawTopic(None, Some(<<"u">>), None),
     RawTopic(Some(<<>>), Some(<<"u">>), None),
     RawTopic(Some(<<"t">>), Some(<<"u">>), Some(RawIcon(None, TRUE, TRUE))),
     RawTopic(Some(<<"t">>), Some(<<"u">>), Some(RawIcon(Some(<<"/", "i">>), FALSE, TRUE))),
     RawTopic(Some(<<"t">>), Some(<<"u">>), Some(RawIcon(Some(<<"/", "i">>), TRUE, FALSE)))}

\* The body of an instant-answer response. required: the fields the
\* Response struct declares without Option (ImageHeight, ImageIsLogo,
\* ImageWidth, RelatedTopics, Results, Type) are all there.
RawAnswer(json, required, heading, abstract_text, abstract_source, abstract_url, image, topics) ==
    [json |-> json, required |-> required, heading |-> heading,
     abstract_text |-> abstract_text, abstract_source |-> abstract_source,
     abstract_url |-> abstract_url, image |-> image, related_topics |-> topics]
AnswerTops ==
    {RawAnswer(TRUE, TRUE, Some(<<"H">>), Some(<<"A">>), Some(<<"S">>), Some(<<"U">>),
               Some(<<"/", "p">>), <<>>),
     RawAnswer(TRUE, TRUE, None, None, None, None, None, <<>>),
     RawAnswer(TRUE, TRUE, Some(<<"H">>), None, Some(<<"S">>), None, Some(<<>>), <<>>),
     RawAnswer(TRUE, FALSE, Some(<<"H">>), None, None, None, None, <<>>)}
AnswerBodies ==
    {RawAnswer(FALSE, FALSE, None, None, None, None, None, <<>>)}
    \cup {[a EXCEPT !.related_topics = ts] :
              a \in AnswerTops, ts \in SeqsUpTo(TopicKinds, MaxTopics)}

\* serde_json::from_str::<Response>(&text) succeeds: every field declared
\* without Option is there, at the top level and in every Icon.
\* An Icon that asks for its URL only.
IconParsesWithUrl(icon) == icon.url.some

IconParses(icon) == icon.url.some /\ icon.height /\ icon.width
ParsesAsResponse(text) ==
    /\ text.json
    /\ text.required
    /\ \A i \in 1..Len(text.related_topics) :
          LET icon == text.related_topics[i].icon
          IN  icon.some => IconParses(icon.val)

\* A printing that takes a missing text for an empty one.
PrintRelatedTopicTextOrEmpty(index, topic) ==
    IF ~topic.first_url.some THEN <<>>
    ELSE <<Line("topic", index, IF topic.text.some THEN topic.text.val ELSE <<>>),
           Line("URL", 0, topic.first_url.val)>>
         \o (IF topic.icon.some /\ topic.icon.val.url.val # <<>>
             THEN <<Line("Image URL", 0, <<ORIGIN_PREFIX>> \o topic.icon.val.url.val)>>
             ELSE <<>>)
         \o <<Line("separator", 0, <<>>)>>

\* A printing that asks for the text only, and prints the URL line when
\* there is a first_url.
PrintRelatedTopicWithText(index, topic) ==
    IF ~topic.text.some THEN <<>>
    ELSE <<Line("topic", index, topic.text.val)>>
         \o (IF topic.first_url.some THEN <<Line("URL", 0, topic.first_url.val)>> ELSE <<>>)
         \o (IF topic.icon.some /\ topic.icon.val.url.val # <<>>
             THEN <<Line("Image URL", 0, <<ORIGIN_PREFIX>> \o topic.icon.val.url.val)>>
             ELSE <<>>)
         \o <<Line("separator", 0, <<>>)>>

\* A printing that leaves a separator line for a topic it skips.
PrintRelatedTopicOrSeparator(index, topic) ==
    IF ~topic.text.some \/ ~topic.first_url.some THEN <<Line("separator", 0, <<>>)>>
    ELSE <<Line("topic", index, topic.text.val), Line("URL", 0, topic.first_url.val)>>
         \o (IF topic.icon.some /\ topic.icon.val.url.val # <<>>
             THEN <<Line("Image URL", 0, <<ORIGIN_PREFIX>> \o topic.icon.val.url.val)>>
             ELSE <<>>)
         \o <<Line("separator", 0, <<>>)>>

\* Browser::print_related_topic: the lines printed for one topic.
PrintRelatedTopic(index, topic) ==
    IF ~topic.text.some THEN <<>>
    ELSE IF ~topic.first_url.some THEN <<>>
    ELSE <<Line("topic", index, topic.text.val), Line("URL", 0, topic.first_url.val)>>
         \o (IF topic.icon.some /\ topic.icon.val.url.val # <<>>
             THEN <<Line("Image URL", 0, <<ORIGIN_PREFIX>> \o topic.icon.val.url.val)>>
             ELSE <<>>)
         \o <<Line("separator", 0, <<>>)>>

\* topics.iter().enumerate().take(limit.unwrap_or(topics.len())) with
\* print_related_topic(index + 1, topic) for each.
RECURSIVE PrintTopics(_, _, _)

\* A loop that drops the topics it cannot print before it numbers and
\* limits them.
IsPrintable(topic) == topic.text.some /\ topic.first_url.some
RECURSIVE PrintTopicsFiltered(_, _, _)
PrintTopicsFiltered(topics, from, upto) ==
    LET kept == SelectSeq(topics, IsPrintable)
    IN  IF from > upto \/ from > Len(kept) THEN <<>>
        ELSE PrintRelatedTopic(from, kept[from])
             \o PrintTopicsFiltered(kept, from + 1, upto)

PrintTopics(topics, from, upto) ==
    IF from > upto \/ from > Len(topics) THEN <<>>
    ELSE PrintRelatedTopic(from, topics[from]) \o PrintTopics(topics, from + 1, upto)

TakeCount(topics, limit) == IF limit.some THEN limit.val ELSE Len(topics)

PrintIfSome(kind, field) == IF field.some THEN <<Line(kind, 0, field.val)>> ELSE <<>>

\* Browser::print_results_list
PrintResultsList(api_response, limit) ==
    PrintIfSome("heading", api_response.heading)
    \o PrintTopics(api_response.related_topics, 1,
                   TakeCount(api_response.related_topics, limit))

\* A detailed printing that puts the image line first.
PrintResultsDetailedImageFirst(api_response, limit) ==
    (IF api_response.image.some /\ api_response.image.val # <<>>
     THEN <<Line("Image URL", 0, <<ORIGIN_PREFIX>> \o api_response.image.val)>>
     ELSE <<>>)
    \o PrintIfSome("heading", api_response.heading)
    \o PrintIfSome("Abstract", api_response.abstract_text)
    \o PrintIfSome("Abstract Source", api_response.abstract_source)
    \o PrintIfSome("Abstract URL", api_response.abstract_url)
    \o PrintTopics(api_response.related_topics, 1,
                   TakeCount(api_response.related_topics, limit))

\* Browser::print_results_detailed
PrintResultsDetailed(api_response, limit) ==
    PrintIfSome("heading", api_response.heading)
    \o PrintIfSome("Abstract", api_response.abstract_text)
    \o PrintIfSome("Abstract Source", api_response.abstract_source)
    \o PrintIfSome("Abstract URL", api_response.abstract_url)
    \o (IF api_response.image.some /\ api_response.image.val # <<>>
        THEN <<Line("Image URL", 0, <<ORIGIN_PREFIX>> \o api_response.image.val)>>
        ELSE <<>>)
    \o PrintTopics(api_response.related_topics, 1,
                   TakeCount(api_response.related_topics, limit))

Contains(s, c) == \E i \in 1..Len(s) : s[i] = c

\* A safe_param that sends the value of the image endpoint when off.
SafeParamOffAsImages(safe_search) ==
    IF safe_search THEN <<"&", "k", "p", "=", "1">> ELSE <<"&", "k", "p", "=", "-", "1">>

\* let safe_param = if safe_search { "&kp=1" } else { "&kp=-2" };
SafeParam(safe_search) ==
    IF safe_search THEN <<"&", "k", "p", "=", "1">> ELSE <<"&", "k", "p", "=", "-", "2">>

\* The path search, advanced_search and search_operators hand to browse:
\* format!("?q={}{}", ..), format!("?q={}&kl={}{}", ..), format!("?q={}&{}{}", ..)
SearchPath(fn, query, operators, safe_search) ==
    <<"?", "q", "=">> \o query
    \o (IF fn = "advanced_search" THEN <<"&", "k", "l", "=">> \o operators
        ELSE IF fn = "search_operators" THEN <<"&">> \o operators
        ELSE <<>>)
    \o SafeParam(safe_search)

\* format!("{}{}{}format=json", BASE_URL, path, separator)
BrowseUrl(path) ==
    <<BASE_URL>> \o path \o <<IF Contains(path, "?") THEN "&" ELSE "?">>
    \o <<"f", "o", "r", "m", "a", "t", "=", "j", "s", "o", "n">>

\* The params and operators text a caller of the library hands over: a
\* region or an operator, and text that names a parameter of its own.
OperatorTexts(fn) ==
    IF fn = "search" THEN {<<>>}
    ELSE IF fn = "advanced_search" THEN {<<"u", "s">>}
    ELSE {<<"o">>, <<"k", "p", "=", "-", "2">>}

\* self.client.get(&url): a request with the headers the client itself
\* adds: reqwest's default Accept, and the default User-Agent when one was
\* configured.
BrowseRequest(url, client_user_agent) ==
    [method |-> "GET", url |-> url,
     headers |-> {<<"Accept", "*/*">>}
                 \cup (IF client_user_agent.some
                       THEN {<<"User-Agent", client_user_agent.val>>} ELSE {}),
     params |-> <<>>]

\* A test of the status that lets every status below 400 through.
StatusIsNotError(status) == status < 400

StatusIsSuccess(status) == status >= 200 /\ status <= 299

BrowseStatuses == {200, 204, 304, 404, 500}
BrowseResponses ==
    {TransportFailure, Response(TRUE, 200, FALSE, RawAnswer(FALSE, FALSE, None, None, None, None, None, <<>>))}
    \cup {Response(TRUE, st, TRUE, b) :
              st \in BrowseStatuses \ {200},
              b \in {RawAnswer(FALSE, FALSE, None, None, None, None, None, <<>>)}}
    \cup {Response(TRUE, 200, TRUE, b) : b \in AnswerBodies}
    \cup {Response(TRUE, st, TRUE,
                   RawAnswer(TRUE, TRUE, Some(<<"H">>), Some(<<"A">>), Some(<<"S">>),
                             Some(<<"U">>), Some(<<"/", "p">>), <<>>)) : st \in {204, 404}}

\* search, advanced_search or search_operators with these arguments,
\* answered by resp: the path, and browse.
DoSearch(fn, query, operators, safe_search, detailed, limit, client_user_agent, cli, resp) ==
    LET url == BrowseUrl(SearchPath(fn, query, operators, safe_search))
    IN  /\ call' = [NoCall EXCEPT !.fn = fn, !.query = query, !.operators = operators,
                                  !.safesearch = safe_search, !.limit = limit,
                                  !.detailed = detailed,
                                  !.client_user_agent = client_user_agent, !.cli = cli]
        /\ requests' = Append(requests, BrowseRequest(url, client_user_agent))
        /\ served' = Append(served, resp)
        /\ IF ~resp.sent
           THEN /\ ret' = ErrWith("Failed to send request to", <<url>>)
                /\ UNCHANGED output
           ELSE IF ~resp.readable
           THEN /\ ret' = Err("Failed to read response body")
                /\ UNCHANGED output
           ELSE IF ~StatusIsSuccess(resp.status)
           THEN /\ ret' = ErrWith("Request failed with status", <<resp.status, resp.body>>)
                /\ UNCHANGED output
           ELSE IF ~ParsesAsResponse(resp.body)
           THEN /\ ret' = ErrWith("Failed to parse JSON response", <<resp.body>>)
                /\ UNCHANGED output
           ELSE /\ output' = output \o (IF detailed
                                        THEN PrintResultsDetailed(resp.body, limit)
                                        ELSE PrintResultsList(resp.body, limit))
                /\ ret' = Ok(<<>>)
        /\ pc' = "done"
        /\ UNCHANGED <<page_params, results, vqd>>

\* search, advanced_search or search_operators called by a user of the
\* library.
Search ==
    /\ pc = "idle"
    /\ \E fn \in {"search", "advanced_search", "search_operators"}, q \in Queries,
          safe \in BOOLEAN, detailed \in BOOLEAN, limit \in Limits,
          cua \in {None} \cup {Some(ua) : ua \in UserAgents},
          resp \in BrowseResponses :
          \E ops \in OperatorTexts(fn) :
              DoSearch(fn, q, ops, safe, detailed, limit, cua, NoCli, resp)

(* ------------------------- the command-line binaries ------------------ *)
\* user_agents::USER_AGENTS: alias to User-Agent string.
USER_AGENTS ==
    ("firefox" :> "Mozilla/5.0 (Windows NT 10.0; Win64; x64; rv:97.0) Gecko/20100101 Firefox/97.0") @@
    ("chrome" :> "Mozilla/5.0 (Windows NT 10.0; Win64; x64) AppleWebKit/537.36 (KHTML, like Gecko) Chrome/98.0.4758.102 Safari/537.36") @@
    ("edge" :> "Mozilla/5.0 (Windows NT 10.0; Win64; x64) AppleWebKit/537.36 (KHTML, like Gecko) Chrome/98.0.4758.102 Safari/537.36 Edg/98.0.1108.56") @@
    ("safari" :> "Mozilla/5.0 (Macintosh; Intel Mac OS X 10_15_7) AppleWebKit/605.1.15 (KHTML, like Gecko) Version/15.0.3 Safari/605.1.15") @@
    ("opera" :> "Mozilla/5.0 (Windows NT 10.0; Win64; x64) AppleWebKit/537.36 (KHTML, like Gecko) Chrome/98.0.4758.102 Safari/537.36 OPR/85.0.4252.0") @@
    ("ie11" :> "Mozilla/5.0 (Windows NT 10.0; WOW64; Trident/7.0; AS; rv:11.0) like Gecko") @@
    ("android" :> "Mozilla/5.0 (Linux; Android 11; SM-G960U) AppleWebKit/537.36 (KHTML, like Gecko) Chrome/98.0.4758.101 Mobile Safari/537.36") @@
    ("ios" :> "Mozilla/5.0 (iPhone; CPU iPhone OS 15_3 like Mac OS X) AppleWebKit/605.1.15 (KHTML, like Gecko) Version/15.3 Mobile/15E148 Safari/604.1") @@
    ("edge_android" :> "Mozilla/5.0 (Linux; Android 11; SM-G960U) AppleWebKit/537.36 (KHTML, like Gecko) Chrome/98.0.4758.101 Mobile Safari/537.36 EdgA/47.13.4.5140") @@
    ("opera_mini" :> "Mozilla/5.0 (Linux; U; Android 11; en-US; SM-G960U) AppleWebKit/36.0.1985.137 Mobile Safari/36.0.1985.137 Opera Mini/62.3.2254/62.4057") @@
    ("uc_browser" :> "Mozilla/5.0 (Linux; U; Android 11; en-US; SM-G960U) AppleWebKit/534.30 (KHTML, like Gecko) Version/4.0 UCBrowser/13.5.2.1313 U3/0.8.0 Mobile Safari/534.30") @@
    ("blackberry" :> "Mozilla/5.0 (BB10; Touch) AppleWebKit/537.10+ (KHTML, like Gecko) Version/10.1.0.4181 Mobile Safari/537.10+") @@
    ("mozilla" :> "Mozilla/5.0 (compatible; Googlebot/2.1; +http://www.google.com/bot.html)") @@
    ("bingbot" :> "Mozilla/5.0 (compatible; bingbot/2.0; +http://www.bing.com/bingbot.htm)") @@
    ("yahoo_slurp" :> "Mozilla/5.0 (compatible; Yahoo! Slurp; http://help.yahoo.com/help/us/ysearch/slurp)") @@
    ("duckduckgo" :> "Mozilla/5.0 (compatible; DuckDuckBot/1.0; +http://duckduckgo.com)") @@
    ("baiduspider" :> "Mozilla/5.0 (compatible; Baiduspider/2.0; +http://www.baidu.com/search/spider.html)") @@
    ("yandexbot" :> "Mozilla/5.0 (compatible; YandexBot/3.0; +http://yandex.com/bots)") @@
    ("ahrefsbot" :> "Mozilla/5.0 (compatible; AhrefsBot/7.0; +http://ahrefs.com/robot/)") @@
    ("mj12bot" :> "Mozilla/5.0 (compatible; MJ12bot/v1.4.8; http://www.majestic12.co.uk/bot.php?+)") @@
    ("semrushbot" :> "Mozilla/5.0 (compatible; SemrushBot/7~bl; +http://www.semrush.com/bot.html)") @@
    ("sogou_spider" :> "Sogou web spider/4.0(+http://www.sogou.com/docs/help/webmasters.htm#07)") @@
    ("exabot" :> "Mozilla/5.0 (compatible; Exabot/3.0; +http://www.exabot.com/go/robot)") @@
    ("dotbot" :> "DotBot/1.1 http://www.dotnetdotcom.org/") @@
    ("facebook" :> "facebookexternalhit/1.1 (+http://www.facebook.com/externalhit_uatext.php)") @@
    ("pinterest" :> "Pinterest/0.1 +http://www.pinterest.com/") @@
    ("slackbot" :> "Slackbot-LinkExpanding 1.0 (+https://api.slack.com/robots)") @@
    ("discord" :> "Mozilla/5.0 (compatible; Discordbot/2.0; +https://discordapp.com)") @@
    ("zoom" :> "ZoominfoBot (zoominfobot at zoominfo dot com)") @@
    ("whatsapp" :> "WhatsApp/2.21.11.13 i") @@
    ("applebot" :> "Applebot/0.1; +http://www.apple.com/go/applebot)") @@
    ("flipboard" :> "Flipboard/3.3.25 CFNetwork/711.3.18 Darwin/14.0.0") @@
    ("outlook" :> "Mozilla/5.0 (Windows NT 10.0; Win64; x64; rv:78.0) Gecko/20100101 Firefox/78.0 Outlook/1.0;")

\* USER_AGENTS.get(alias)
UserAgentsGet(alias) == IF alias \in DOMAIN USER_AGENTS THEN Some(USER_AGENTS[alias]) ELSE None

\* user_agents::get(alias), the lookup src/bin/main.rs calls.
Get(alias) == UserAgentsGet(alias)

\* The default_value_t of --user-agent and of --limit.
DEFAULT_USER_AGENT ==
    "Mozilla/5.0 (Windows NT 10.0; Win64; x64) AppleWebKit/537.36 (KHTML, like Gecko) Chrome/58.0.3029.110 Safari/537.3"
DEFAULT_LIMIT == 10

\* urlencoding::encode: every byte that is not a letter, a digit or one of
\* - _ . ~ becomes %XX. Escapes lists the other characters the command
\* lines below are made of.
Escapes ==
    (" " :> <<"%", "2", "0">>) @@ ("&" :> <<"%", "2", "6">>) @@ ("=" :> <<"%", "3", "D">>)
    @@ ("+" :> <<"%", "2", "B">>) @@ (":" :> <<"%", "3", "A">>) @@ ("?" :> <<"%", "3", "F">>)
RECURSIVE encode(_)
encode(text) ==
    IF text = <<>> THEN <<>>
    ELSE (IF Head(text) \in DOMAIN Escapes THEN Escapes[Head(text)] ELSE <<Head(text)>>)
         \o encode(Tail(text))

\* --proxy: the empty string, or scheme://host. reqwest::Proxy::all takes
\* the schemes every build of reqwest knows and refuses another scheme.
NoProxy == [scheme |-> "", host |-> ""]
ProxyUrl(scheme, host) == [scheme |-> scheme, host |-> host]
ProxyAll(proxy) == proxy.scheme \in {"http", "https"} /\ proxy.host # ""

\* Command lines: the user agent is empty, the default, an alias of the
\* table or another name; the proxy is empty, valid or invalid; the query
\* is empty or not. The Lite, Images and News backends, which do not read
\* --format and --operators, are run with the defaults of these and of
\* --limit.
CliUserAgents == {"", DEFAULT_USER_AGENT, "firefox", "MyCustomAgent"}
CliProxies ==
    {NoProxy, ProxyUrl("http", "192.168.1.1:9000"), ProxyUrl("ftp", "192.168.1.1:9000")}
CliQueries == {<<>>, <<"r", " ", "l">>}
CliOperators == {<<>>, <<"k", "p", "=", "-", "2">>}
CliLimits == {1, DEFAULT_LIMIT}
Backends(bin) == IF bin = "bin" THEN {"Auto", "Lite", "Images", "News"} ELSE {"Auto"}
CommandLines(bin) ==
    {CliArgs(bin, ua, proxy, q, ops, safe, format, limit, backend) :
         ua \in CliUserAgents, proxy \in CliProxies, q \in CliQueries,
         ops \in CliOperators, safe \in BOOLEAN, format \in BOOLEAN,
         limit \in CliLimits, backend \in Backends(bin)}
    \ {args \in
          {CliArgs(bin, ua, proxy, q, ops, safe, format, limit, backend) :
               ua \in CliUserAgents, proxy \in CliProxies, q \in CliQueries,
               ops \in CliOperators, safe \in BOOLEAN, format \in BOOLEAN,
               limit \in CliLimits, backend \in Backends(bin)} :
          args.backend # "Auto"
              /\ (args.format \/ args.operators # <<>> \/ args.limit # DEFAULT_LIMIT)}

\* Answers of the instant-answer endpoint to a run of a binary.
CliAnswers ==
    {TransportFailure,
     Response(TRUE, 404, TRUE, RawAnswer(FALSE, FALSE, None, None, None, None, None, <<>>)),
     Response(TRUE, 200, TRUE, RawAnswer(FALSE, FALSE, None, None, None, None, None, <<>>)),
     Response(TRUE, 200, TRUE,
              RawAnswer(TRUE, TRUE, Some(<<"H">>), Some(<<"A">>), None, None, None,
                        <<RawTopic(Some(<<"t">>), Some(<<"u">>), None)>>))}

\* A lookup that lets every name through, as a User-Agent of its own.
LookupOrVerbatim(bin, alias) == Some(alias)

\* The lookup of --user-agent: USER_AGENTS.get in src/main.rs, get in
\* src/bin/main.rs.
Lookup(bin, alias) == IF bin = "bin" THEN Get(alias) ELSE UserAgentsGet(alias)

\* The configuration of the client, up to the test of the query: the
\* error main stops with, "" when there is none. built: the client
\* builder's build() succeeds.
ConfigError(args, built) ==
    IF args.user_agent # "" /\ ~Lookup(args.bin, args.user_agent).some
    THEN "Invalid user agent selected!"
    ELSE IF args.proxy # NoProxy /\ ~ProxyAll(args.proxy) THEN "proxy"
    ELSE IF ~built THEN "builder"
    ELSE IF args.query = <<>> THEN "Query is required!"
    ELSE ""

\* The client's default User-Agent, and usr_agent of src/bin/main.rs.
ClientUserAgent(args) ==
    IF args.user_agent # "" THEN Lookup(args.bin, args.user_agent) ELSE None
UsrAgent(args) == IF args.user_agent # "" THEN Lookup(args.bin, args.user_agent).val ELSE ""

\* main stops with a configuration error: nothing is requested.
StopWith(args, error) ==
    /\ call' = [NoCall EXCEPT !.fn = "main", !.cli = args]
    /\ ret' = Err(error)
    /\ pc' = "done"
    /\ UNCHANGED <<page_params, results, requests, served, vqd, output>>

\* The instant-answer search both binaries run: search_operators when
\* --operators is given, search otherwise, on the encoded text.
RunAuto(args, resp) ==
    IF args.operators # <<>>
    THEN DoSearch("search_operators", encode(args.query), encode(args.operators), args.safe,
                  args.format, Some(args.limit), ClientUserAgent(args), args, resp)
    ELSE DoSearch("search", encode(args.query), <<>>, args.safe,
                  args.format, Some(args.limit), ClientUserAgent(args), args, resp)

\* main of src/main.rs.
Main ==
    /\ pc = "idle"
    /\ \E args \in CommandLines("main"), built \in BOOLEAN, resp \in CliAnswers :
          IF ConfigError(args, built) # "" THEN StopWith(args, ConfigError(args, built))
          ELSE RunAuto(args, resp)

\* main of src/bin/main.rs: the same configuration, then the backend.
BinMain ==
    /\ pc = "idle"
    /\ \E args \in CommandLines("bin"), built \in BOOLEAN :
          IF ConfigError(args, built) # "" THEN StopWith(args, ConfigError(args, built))
          ELSE IF args.backend = "Auto" THEN \E resp \in CliAnswers : RunAuto(args, resp)
          ELSE IF args.backend = "Lite"
          THEN \E resp \in LiteResponses :
                   DoLiteSearch(args.query, <<"wt-wt">>, Some(args.limit), UsrAgent(args),
                                args, resp)
          ELSE EnterPaged(IF args.backend = "Images" THEN "images" ELSE "news", args.query,
                          <<"wt-wt">>, args.safe, Some(args.limit), UsrAgent(args), args)

Next ==
    \/ CallPaged
    \/ FetchVqd
    \/ FetchPage
    \/ CallRequest
    \/ CallGetVqd
    \/ LiteSearch
    \/ Search
    \/ Main
    \/ BinMain

Spec == Init /\ [][Next]_vars

(* ------------------- images and news left to run ----------------------- *)
\* A caller of the library enters images or news with a limit.
CallLimited ==
    /\ pc = "idle"
    /\ \E fn \in {"images", "news"}, q \in Queries, safe \in BOOLEAN,
          limit \in Limits \ {None}, ua \in UserAgents :
          EnterPaged(fn, q, <<"wt-wt">>, safe, limit, ua, NoCli)

\* The loop of images and news, followed for as long as the code follows
\* it: `loop { ... }` has no exit other than its returns. The model
\* remembers the last MaxRecent pages of such a call.
FetchPageOn ==
    /\ pc = "page"
    /\ \E resp \in PageResponses : LoopIteration(resp, MaxRecent)

NextLimited ==
    \/ CallLimited
    \/ FetchVqd
    \/ FetchPageOn

\* Every request is answered or fails, and the code then runs to its next
\* request or to its return: a step that is possible is eventually taken.
SpecLimited ==
    /\ Init
    /\ [][NextLimited]_vars
    /\ WF_vars(FetchVqd)
    /\ WF_vars(FetchPageOn)

(* ======================================================================= *)
(* Properties                                                              *)
(* ======================================================================= *)
Paged == call.fn \in {"images", "news"}

\* A page answer the loop accepts, and the elements of its "results".
PageSucceeded(resp) == resp.sent /\ resp.status = 200 /\ resp.readable /\ resp.body.json
ItemsOf(resp) ==
    IF PageSucceeded(resp) /\ resp.body.results.arr THEN resp.body.results.items ELSE <<>>
HasNext(resp) == PageSucceeded(resp) /\ resp.body.next.str

RECURSIVE AllItems(_)
AllItems(pages) == IF pages = <<>> THEN <<>> ELSE ItemsOf(Head(pages)) \o AllItems(Tail(pages))

RecordsOf(fn, items) == [i \in 1..Len(items) |-> Record(fn, items[i])]

\* Upstream answered pages 1..n-1 with a string "next" and page n without.
ChainEnded(pages) ==
    /\ Len(pages) >= 1
    /\ \A k \in 1..Len(pages) : PageSucceeded(pages[k])
    /\ \A k \in 1..(Len(pages) - 1) : HasNext(pages[k])
    /\ ~HasNext(pages[Len(pages)])

\* C1: images and news with limit = None: once upstream has answered pages
\* 1..n-1 with a string "next" and page n without one, the call has ended
\* after exactly those n page requests and has returned one record per
\* "results" element of the n pages, in page order and in-page order.
C1_AllPagesInOrder ==
    (Paged /\ ~call.limit.some /\ ChainEnded(PagesServed))
        => /\ pc = "done"
           /\ Len(PageRequests) = Len(PagesServed)
           /\ ret = Ok(RecordsOf(call.fn, AllItems(PagesServed)))

\* Three pages, the first two with "next" and two elements each.
C1_Witness ==
    /\ Paged /\ ~call.limit.some /\ ChainEnded(PagesServed)
    /\ Len(PagesServed) = 3
    /\ Len(ItemsOf(PagesServed[1])) = 2 /\ Len(ItemsOf(PagesServed[2])) = 2
    /\ pc = "done" /\ ret.kind = "ok"

\* C2: images and news with limit = Some(L), L >= 1: once the pages
\* answered hold at least L elements, the call has ended, has returned
\* exactly the first L records, and the page that held the L-th element is
\* the last page requested, also when that element ends a page that
\* carries "next".
C2_StopsAtLimit ==
    (Paged /\ call.limit.some /\ call.limit.val >= 1
           /\ Len(AllItems(PagesServed)) >= call.limit.val)
        => /\ pc = "done"
           /\ ret = Ok(RecordsOf(call.fn, SubSeq(AllItems(PagesServed), 1, call.limit.val)))
           /\ Len(PageRequests) = Len(PagesServed)
           /\ Len(AllItems(SubSeq(PagesServed, 1, Len(PagesServed) - 1))) < call.limit.val

\* The L-th element is the last one of a page that carries "next".
C2_Witness ==
    /\ Paged /\ call.limit = Some(2) /\ pc = "done"
    /\ Len(PagesServed) = 1
    /\ Len(ItemsOf(PagesServed[1])) = 2 /\ HasNext(PagesServed[1])
    /\ Len(ret.value) = 2

\* C3: for every limit Some(L), L = 0 included, lite_search, images and
\* news return at most L records.
C3_AtMostLimit ==
    (call.fn \in {"lite_search", "images", "news"} /\ call.limit.some /\ ret.kind = "ok")
        => Len(ret.value) <= call.limit.val

\* The last page answered was requested and failed: the request itself, or
\* the reading or JSON decoding of its body.
LastPageFailed ==
    /\ Len(PagesServed) >= 1
    /\ LET resp == PagesServed[Len(PagesServed)]
       IN  \/ ~resp.sent
           \/ resp.status >= 400
           \/ ~resp.readable
           \/ ~resp.body.json

\* C4: images and news: when the request or the JSON decoding of page
\* N >= 2 fails, the call has ended with an error that carries none of the
\* records of pages 1..N-1, and page N is the last request.
C4_FailureDiscardsPages ==
    (Paged /\ Len(PagesServed) >= 2 /\ LastPageFailed)
        => /\ pc = "done"
           /\ ret.kind = "err"
           /\ ret.value = <<>>
           /\ Len(PageRequests) = Len(PagesServed)

\* Page 2 is not JSON after a first page that gave two records.
C4_Witness ==
    /\ Paged /\ Len(PagesServed) = 2 /\ LastPageFailed
    /\ PagesServed[2].sent /\ PagesServed[2].status = 200
    /\ Len(results) = 2
    /\ ret.kind = "err"

\* The text after the last occurrence of pat in s.
AfterLast(s, pat) == SubSeq(s, Max(Occurrences(s, pat)) + Len(pat), Len(s))

\* C5: images and news: the cursor sent with page k + 1 is the text after
\* the LAST "s=" of page k's "next", also when "s=" occurs more than once.
C5_CursorAfterLastOccurrence ==
    Paged =>
        \A k \in 1..(Len(PageRequests) - 1) :
            LET next == PagesServed[k].body.next.val
                sent == PageRequests[k + 1].params
            IN  Occurrences(next, <<"s", "=">>) # {}
                    => sent[Len(sent)] = Param("s", AfterLast(next, <<"s", "=">>))

HeaderNames(req) == {h[1] : h \in req.headers}
CarriesFixedHeaders(req) ==
    /\ {"User-Agent", "Accept", "Referer", "Accept-Language"} \subseteq HeaderNames(req)
    /\ <<"Accept", "application/json">> \in req.headers
    /\ <<"Referer", SITE_ORIGIN>> \in req.headers

\* C6 as stated: every request of every entry point carries the four
\* fixed headers.
C6_EveryRequestCarriesHeaders ==
    \A i \in 1..Len(requests) : CarriesFixedHeaders(requests[i])

\* C6, amended: every request sent through Browser::request (request,
\* get_vqd, lite_search, images, news) carries the four fixed headers; the
\* request browse sends for search, advanced_search and search_operators
\* carries no Referer, no Accept-Language and no Accept: application/json.
C6_GatewayRequestsCarryHeaders ==
    /\ call.fn \in {"request", "get_vqd", "lite_search", "images", "news"}
           => \A i \in 1..Len(requests) : CarriesFixedHeaders(requests[i])
    /\ call.fn \in {"search", "advanced_search", "search_operators"}
           => \A i \in 1..Len(requests) :
                  /\ HeaderNames(requests[i]) \cap {"Referer", "Accept-Language"} = {}
                  /\ <<"Accept", "application/json">> \notin requests[i].headers

\* A news call that sent its token request and two page requests.
C6_Witness ==
    /\ call.fn = "news" /\ Len(requests) = 3
    /\ requests[3].url = NEWS_URL

TokenFailed(resp) ==
    \/ ~resp.sent
    \/ resp.status >= 400
    \/ ~resp.readable
    \/ ~VqdCapture(resp.body).some

\* C8: images and news: the first request is the one token request to the
\* landing page, every later request goes to the image/news endpoint, and
\* when the token request fails or finds no token the call has failed
\* with that single request sent.
C8_OneTokenRequestFirst ==
    Paged =>
        /\ pc = "page" => Len(requests) >= 1
        /\ \A i \in 1..Len(requests) :
              IF i = 1
              THEN /\ requests[i].url = SITE_ORIGIN
                   /\ requests[i].params = <<Param("q", call.query)>>
              ELSE requests[i].url = PageUrl(call.fn)
        /\ (Len(served) >= 1 /\ TokenFailed(served[1]))
              => /\ pc = "done"
                 /\ ret.kind = "err"
                 /\ Len(requests) = 1

\* The landing page was fetched and holds no token.
C8_Witness ==
    /\ Paged /\ Len(served) = 1
    /\ served[1].sent /\ served[1].status = 200 /\ served[1].readable
    /\ ~VqdCapture(served[1].body).some
    /\ pc = "done" /\ ret.kind = "err"

\* The longest run of digits of s that starts at position p.
RECURSIVE DigitRun(_, _)
DigitRun(s, p) ==
    IF p <= Len(s) /\ IsDigit(s[p]) THEN <<s[p]>> \o DigitRun(s, p + 1) ELSE <<>>

\* The digits of a body whose single `vqd=` is followed by an optional
\* quote, an optional hyphen and one or more digits; <<>> for other bodies.
ShapedDigits(body) ==
    IF Cardinality(Occurrences(body, VqdEq)) # 1 THEN <<>>
    ELSE LET p == Min(Occurrences(body, VqdEq)) + Len(VqdEq)
             afterQuote == IF p <= Len(body) /\ IsQuote(body[p]) THEN p + 1 ELSE p
             afterHyphen == IF afterQuote <= Len(body) /\ body[afterQuote] = "-"
                            THEN afterQuote + 1 ELSE afterQuote
         IN  DigitRun(body, afterHyphen)

FetchedBody == served[1].sent /\ served[1].status = 200 /\ served[1].readable

\* C9: for every body in which `vqd=` is followed by an optional quote, an
\* optional hyphen, one or more digits and an optional quote, get_vqd
\* returns exactly that run of digits.
C9_ReturnsDigitRun ==
    (call.fn = "get_vqd" /\ pc = "done" /\ FetchedBody
                         /\ ShapedDigits(served[1].body) # <<>>)
        => ret = Ok(ShapedDigits(served[1].body))

\* C10: for the body `vqd=-12345` get_vqd returns "-12345".
C10_HyphenExample ==
    (call.fn = "get_vqd" /\ pc = "done" /\ FetchedBody
                         /\ served[1].body = VqdEq \o <<"-", "1", "2", "3", "4", "5">>)
        => ret = Ok(<<"-", "1", "2", "3", "4", "5">>)

\* C11: for a successfully fetched body that holds no `vqd=`, get_vqd
\* fails with "Missing vqd in response" and returns no token.
C11_MissingTokenFails ==
    (call.fn = "get_vqd" /\ pc = "done" /\ FetchedBody
                         /\ Occurrences(served[1].body, VqdEq) = {})
        => ret = Err("Missing vqd in response")

\* A fetched body without `vqd=` that holds digits and a quote.
C11_Witness ==
    /\ call.fn = "get_vqd" /\ pc = "done" /\ FetchedBody
    /\ served[1].body = <<"x", "1", "2", "'">>
    /\ ret.kind = "err"

\* lite_search returned the scraping of a fetched document.
LiteScraped ==
    /\ call.fn = "lite_search" /\ pc = "done"
    /\ served[1].sent /\ served[1].status = 200 /\ served[1].readable

HasAnchor(tr) == tr.anchor.some
HasLink(tr) == tr.anchor.some /\ tr.href.some
SnippetOrEmpty(tr) == IF tr.snippet.some THEN tr.snippet.val ELSE <<>>

\* C12 as stated: with limit = None, lite_search returns one result for
\* every row that holds an anchor, in row order, with the anchor's text as
\* title and the snippet cell's text (or "") as snippet.
C12_OneResultPerAnchorRow ==
    (LiteScraped /\ ~call.limit.some)
        => LET rows == SelectSeq(served[1].body, HasAnchor)
           IN  /\ ret.kind = "ok"
               /\ Len(ret.value) = Len(rows)
               /\ \A i \in 1..Len(rows) :
                      /\ ret.value[i].title = rows[i].anchor.val
                      /\ ret.value[i].snippet = SnippetOrEmpty(rows[i])

\* C12, amended: with limit = None, lite_search returns, in row order,
\* one result for every row whose first anchor has an href attribute
\* (title the anchor's text, url the href, snippet the first snippet
\* cell's text or "" without such a cell), and none for a row without an
\* anchor or whose first anchor has no href.
C12_OneResultPerLinkRow ==
    (LiteScraped /\ ~call.limit.some)
        => LET rows == SelectSeq(served[1].body, HasLink)
           IN  ret = Ok([i \in 1..Len(rows) |->
                            [title |-> rows[i].anchor.val, url |-> rows[i].href.val,
                             snippet |-> SnippetOrEmpty(rows[i])]])

\* Three rows: no anchor, anchor with href and snippet, anchor with href
\* and no snippet cell; two results, the second with an empty snippet.
C12_Witness ==
    /\ LiteScraped /\ ~call.limit.some
    /\ Len(served[1].body) = 3
    /\ ~HasAnchor(served[1].body[1])
    /\ HasLink(served[1].body[2]) /\ served[1].body[2].snippet.some
    /\ HasLink(served[1].body[3]) /\ ~served[1].body[3].snippet.some
    /\ Len(ret.value) = 2 /\ ret.value[2].snippet = <<>>

\* The elements answered so far to an images or news call, and whether
\* every page answered was accepted.
Elements == AllItems(PagesServed)
EveryPageSucceeded ==
    Len(PagesServed) >= 1 /\ \A k \in 1..Len(PagesServed) : PageSucceeded(PagesServed[k])

ImageTextFields == {"title", "image", "thumbnail", "url", "source"}
ImageSizeFields == {"height", "width"}

\* C13: images: the i-th record accumulated comes from the i-th element
\* answered; each text field the element lacks or holds with another type
\* is "" in the record (a string is kept), each height/width the element
\* lacks or holds with another type is 0; no element fails the call or is
\* dropped: a call whose pages were all accepted ends with Ok, and without
\* a limit with one record per element.
C13_ImageFieldDefaults ==
    call.fn = "images" =>
        /\ Len(results) <= Len(Elements)
        /\ \A i \in 1..Len(results) :
              /\ \A f \in ImageTextFields :
                     results[i][f] = IF Elements[i][f].t = "str" THEN Elements[i][f].s ELSE <<>>
              /\ \A f \in ImageSizeFields :
                     Elements[i][f].t # "num" => results[i][f] = Small(0)
        /\ (pc = "done" /\ EveryPageSucceeded)
              => /\ ret = Ok(results)
                 /\ ~call.limit.some => Len(results) = Len(Elements)

\* An element without a title, with an object for image, a string for
\* height and no width, returned as one record.
C13_Witness ==
    /\ call.fn = "images" /\ pc = "done" /\ Len(PagesServed) = 1
    /\ Len(Elements) = 1
    /\ Elements[1].title = JAbsent /\ Elements[1].image = JOther
    /\ Elements[1].height = JStr(<<"7">>) /\ Elements[1].width = JAbsent
    /\ Elements[1].url.t = "str"
    /\ Len(ret.value) = 1
    /\ ret.value[1].title = <<>> /\ ret.value[1].height = Small(0)

\* C14: images: for every element whose height (width) is a non-negative
\* integer n, the record's height (width) is n, also for n >= 2^32.
C14_SizeKept ==
    call.fn = "images" =>
        \A i \in 1..Len(results) :
            \A f \in ImageSizeFields :
                (Elements[i][f].t = "num" /\ ~Elements[i][f].n.neg)
                    => results[i][f] = Elements[i][f].n

\* The seconds chrono represents, -8334601228800 ..= 8210266876799, on a
\* number in base 2^16.
AtMost(n, w2, w1, w0) ==
    n.w2 < w2 \/ (n.w2 = w2 /\ (n.w1 < w1 \/ (n.w1 = w1 /\ n.w0 <= w0)))
Representable(n) ==
    IF n.neg THEN AtMost(n, 1940, 36082, 4608) ELSE AtMost(n, 1911, 39434, 27519)

\* C15: news: the date of the i-th record is the rendering of the i-th
\* element's timestamp when "date" is an integer chrono represents, and
\* the rendering of the current time when "date" is missing, not an
\* integer or out of range; no "date" fails the call or drops the
\* element.
C15_NewsDate ==
    call.fn = "news" =>
        /\ Len(results) <= Len(Elements)
        /\ \A i \in 1..Len(results) :
              results[i].date =
                  IF Elements[i].date.t = "num" /\ Representable(Elements[i].date.n)
                  THEN [of |-> "timestamp", ts |-> Elements[i].date.n]
                  ELSE [of |-> "now", ts |-> Small(0)]
        /\ (pc = "done" /\ EveryPageSucceeded)
              => /\ ret = Ok(results)
                 /\ ~call.limit.some => Len(results) = Len(Elements)

\* An element whose "date" is the string "not-a-number", returned as one
\* record dated now.
C15_Witness ==
    /\ call.fn = "news" /\ pc = "done" /\ Len(Elements) = 1
    /\ Elements[1].date = JStr(<<"not-a-number">>)
    /\ Len(ret.value) = 1 /\ ret.value[1].date.of = "now"

\* search, advanced_search or search_operators printed an instant answer.
Searched == call.fn \in {"search", "advanced_search", "search_operators"}
Printed == Searched /\ pc = "done" /\ ret.kind = "ok"
Answer == served[1].body
Topics == Answer.related_topics

\* The topics the loop visits: the first `limit` ones, all without limit.
Window ==
    1..(IF call.limit.some /\ call.limit.val < Len(Topics) THEN call.limit.val
        ELSE Len(Topics))

LinesOf(kind) == {i \in 1..Len(output) : output[i].line = kind}
TopicNumbers == {output[i].n : i \in LinesOf("topic")}

\* The answer arrived with a success status and is a JSON document with
\* every required top-level field.
AnswerWellFormed ==
    /\ Searched /\ pc = "done"
    /\ served[1].sent /\ served[1].status = 200 /\ served[1].readable
    /\ Answer.json /\ Answer.required

Header(topic) == ~topic.text.some /\ ~topic.first_url.some
Leaf(topic) == topic.text.some /\ topic.first_url.some

\* C16: in both modes a topic without text and without first_url prints
\* nothing (no numbered line, and no URL or separator line of its own),
\* raises no error, and the topics after it inside the window are still
\* printed.
C16_HeaderTopicSkipped ==
    /\ Printed =>
           /\ \A k \in Window : Header(Topics[k]) => k \notin TopicNumbers
           /\ Cardinality(LinesOf("separator")) = Cardinality(LinesOf("topic"))
           /\ Cardinality(LinesOf("URL")) = Cardinality(LinesOf("topic"))
           /\ \A k \in Window : Leaf(Topics[k]) => k \in TopicNumbers
    /\ (AnswerWellFormed /\ \A k \in 1..Len(Topics) : ~Topics[k].icon.some)
           => ret.kind = "ok"

\* List mode, a header topic followed by a leaf: only the leaf is printed.
C16_Witness ==
    /\ Printed /\ ~call.detailed /\ ~call.limit.some
    /\ Len(Topics) = 2 /\ Header(Topics[1]) /\ Leaf(Topics[2])
    /\ TopicNumbers = {2}
    /\ Cardinality(LinesOf("separator")) = 1

\* C17 as stated: every topic printed has a non-empty text: a topic whose
\* text is absent or "" is never printed.
C17_PrintedTextNonEmpty ==
    Printed =>
        /\ \A i \in LinesOf("topic") : output[i].text # <<>>
        /\ \A k \in Window :
              (~Topics[k].text.some \/ Topics[k].text.val = <<>>) => k \notin TopicNumbers

\* C17, amended: every topic printed has a text that is present: a topic
\* whose text is absent is never printed, while a topic whose text is ""
\* is printed, with that empty text, when it is inside the window and has
\* a first_url.
C17_PrintedTextPresent ==
    Printed =>
        /\ \A i \in LinesOf("topic") : Topics[output[i].n].text = Some(output[i].text)
        /\ \A k \in Window : ~Topics[k].text.some => k \notin TopicNumbers
        /\ \A k \in Window :
              (Topics[k].text = Some(<<>>) /\ Topics[k].first_url.some) => k \in TopicNumbers

\* A topic with text "" and a first_url, printed with an empty text.
C17_Witness ==
    /\ Printed /\ Len(Topics) = 1
    /\ Topics[1].text = Some(<<>>) /\ Topics[1].first_url.some
    /\ \E i \in LinesOf("topic") : output[i].n = 1 /\ output[i].text = <<>>

\* C18: in both modes only the first `limit` topics are visited (all
\* without limit), the number printed for a topic is its position in the
\* sequence upstream sent, numbers are printed in increasing order, and a
\* skipped topic is not replaced by one from beyond the window.
C18_NumberIsPosition ==
    Printed =>
        /\ TopicNumbers = {k \in Window : Leaf(Topics[k])}
        /\ \A i \in LinesOf("topic") : output[i].text = Topics[output[i].n].text.val
        /\ \A i, j \in LinesOf("topic") : i < j => output[i].n < output[j].n

\* limit = 1 with a header topic first: the leaf after it is not printed.
C18_Witness ==
    /\ Printed /\ call.limit = Some(1)
    /\ Len(Topics) = 2 /\ Header(Topics[1]) /\ Leaf(Topics[2])
    /\ TopicNumbers = {}

\* The lines printed before the first topic.
BeforeTopics ==
    IF LinesOf("topic") = {} THEN output
    ELSE SubSeq(output, 1, Min(LinesOf("topic")) - 1)

OptLine(kind, field) == IF field.some THEN <<[line |-> kind, n |-> 0, text |-> field.val]>> ELSE <<>>

\* C19: detailed mode prints heading, abstract text, abstract source,
\* abstract URL and the origin-resolved image, in this order and before
\* the first topic, each if and only if present (the image only if also
\* non-empty); list mode prints before the topics the heading only.
C19_LinesBeforeTopics ==
    Printed =>
        BeforeTopics =
            IF call.detailed
            THEN OptLine("heading", Answer.heading)
                 \o OptLine("Abstract", Answer.abstract_text)
                 \o OptLine("Abstract Source", Answer.abstract_source)
                 \o OptLine("Abstract URL", Answer.abstract_url)
                 \o (IF Answer.image.some /\ Answer.image.val # <<>>
                     THEN <<[line |-> "Image URL", n |-> 0,
                             text |-> <<"https://duckduckgo.com">> \o Answer.image.val]>>
                     ELSE <<>>)
            ELSE OptLine("heading", Answer.heading)

\* Detailed mode, every field present, and a topic after them.
C19_Witness ==
    /\ Printed /\ call.detailed
    /\ Answer.heading.some /\ Answer.abstract_text.some /\ Answer.abstract_source.some
    /\ Answer.abstract_url.some /\ Answer.image.some /\ Answer.image.val # <<>>
    /\ Len(BeforeTopics) = 5 /\ LinesOf("topic") # {}

IconComplete(topic) ==
    topic.icon.some => (topic.icon.val.url.some /\ topic.icon.val.height /\ topic.icon.val.width)

\* C20 as stated: a document in which a topic's icon omits its URL, its
\* height or its width is still parsed and the search does not fail.
C20_IconFieldsOptional ==
    AnswerWellFormed => ret.kind = "ok"

\* C20, amended: a topic's icon is optional, but an icon object must hold
\* all of URL, Height and Width: a document in which a topic's icon omits
\* one of them makes the search fail with "Failed to parse JSON response"
\* and print nothing.
C20_IconFieldsRequired ==
    AnswerWellFormed =>
        IF \A k \in 1..Len(Topics) : IconComplete(Topics[k])
        THEN ret.kind = "ok"
        ELSE ret.err = "Failed to parse JSON response" /\ output = <<>>

\* A topic whose icon has URL and Height but no Width: a parse error.
C20_Witness ==
    /\ AnswerWellFormed
    /\ Len(Topics) = 1 /\ Topics[1].icon.some
    /\ Topics[1].icon.val.url.some /\ Topics[1].icon.val.height /\ ~Topics[1].icon.val.width
    /\ ret.kind = "err"

\* The parameters of a URL: the pieces between `&` of its text after the
\* first `?`.
UrlParams(url) ==
    LET marks == {i \in 1..Len(url) : url[i] = "?"}
        first == Min(marks)
        cuts == {first} \cup {i \in (first + 1)..Len(url) : url[i] = "&"}
        before(i) == Cardinality({c \in cuts : c < i})
        end(c) == Min({d \in cuts \cup {Len(url) + 1} : d > c})
    IN  IF marks = {} THEN <<>>
        ELSE [k \in 1..Cardinality(cuts) |->
                  LET c == CHOOSE d \in cuts : before(d) = k - 1
                  IN  SubSeq(url, c + 1, end(c) - 1)]
IsKp(piece) == StartsWithAt(piece, <<"k", "p", "=">>, 1)
KpParams(url) == SelectSeq(UrlParams(url), IsKp)
IsP(param) == param.k = "p"

ExpectedKp ==
    IF call.safesearch THEN <<"k", "p", "=", "1">> ELSE <<"k", "p", "=", "-", "2">>
ExpectedP == Param("p", IF call.safesearch THEN <<"1">> ELSE <<"-1">>)

\* The parameters the caller's own query and operators text adds to the
\* URL: every piece after an `&` of the query, and every piece of the
\* operators of search_operators (after the first `&` for the params of
\* advanced_search, which start as the value of kl).
CallerParams ==
    Tail(Split(call.query, <<"&">>))
    \o (IF call.fn = "search_operators" THEN Split(call.operators, <<"&">>)
        ELSE IF call.fn = "advanced_search" THEN Tail(Split(call.operators, <<"&">>))
        ELSE <<>>)

CliRun == call.cli.bin \in {"main", "bin"}
Args == call.cli

\* C22: src/main.rs run with a non-empty --query and every other option
\* at its default passes the configuration and reaches the search call:
\* it does not stop with "Invalid user agent selected!".
C22_DefaultCommandLineSearches ==
    (CliRun /\ Args.bin = "main" /\ pc = "done"
            /\ Args.query # <<>>
            /\ Args.user_agent = DEFAULT_USER_AGENT /\ Args.proxy = NoProxy
            /\ Args.operators = <<>> /\ ~Args.safe /\ ~Args.format
            /\ Args.limit = DEFAULT_LIMIT)
        => /\ ret # Err("Invalid user agent selected!")
           /\ ret.err = "builder" \/ (call.fn = "search" /\ Len(requests) = 1)

\* The configuration errors of a command line.
UnknownAlias == Args.user_agent # "" /\ Args.user_agent \notin DOMAIN USER_AGENTS
InvalidProxy == Args.proxy # NoProxy /\ Args.proxy.scheme \notin {"http", "https"}
EmptyQuery == Args.query = <<>>

IsS(param) == param.k = "s"

\* C24: images and news: the first page request carries no `s`
\* parameter, and the k-th page request (k >= 2) carries exactly one,
\* the cursor taken from the answer to page k-1; cursors of earlier pages
\* are not sent again.
C24_OneCursorPerRequest ==
    Paged =>
        \A k \in 1..Len(PageRequests) :
            SelectSeq(PageRequests[k].params, IsS) =
                IF k = 1 THEN <<>>
                ELSE <<Param("s", Cursor(PagesServed[k - 1].body.next.val))>>

\* C25: images and news called with limit = Some(L) issue finitely many
\* page requests and return, whatever the upstream answers, pages whose
\* "results" is empty or missing but which carry a "next" included.
C25_LimitedCallReturns == (Paged /\ call.limit.some) ~> (pc = "done")

\* The answer to the one request of browse, and what the claim tells the
\* statuses and the documents apart by.
BrowseAnswer == served[1]
Answered == Searched /\ pc = "done" /\ BrowseAnswer.sent /\ BrowseAnswer.readable
Is2xx == BrowseAnswer.status \in 200..299
WholeBodyParses ==
    /\ Answer.json /\ Answer.required
    /\ \A k \in 1..Len(Topics) : IconComplete(Topics[k])

\* C26: browse renders nothing unless the status is 2xx and the whole
\* body parses as an instant-answer document. On a non-2xx status it
\* fails with an error carrying the status and the body, on a parse
\* failure with an error that includes the raw body, and in both cases it
\* issues no second request.
C26_BrowseAllOrNothing ==
    Answered =>
        /\ Len(requests) = 1
        /\ IF ~Is2xx
           THEN /\ ret = [kind |-> "err", err |-> "Request failed with status",
                          value |-> <<BrowseAnswer.status, BrowseAnswer.body>>]
                /\ output = <<>>
           ELSE IF ~WholeBodyParses
           THEN /\ ret = [kind |-> "err", err |-> "Failed to parse JSON response",
                          value |-> <<BrowseAnswer.body>>]
                /\ output = <<>>
           ELSE ret.kind = "ok"

\* A 404 whose body would parse, and a 200 whose second topic has an icon
\* without its width: both searches failed and printed nothing.
C26_Witness ==
    /\ Answered /\ ret.kind = "err" /\ output = <<>>
    /\ \/ BrowseAnswer.status = 404 /\ Answer.json /\ Answer.required
       \/ /\ Is2xx /\ Answer.json /\ Answer.required /\ Len(Topics) = 2
          /\ IconComplete(Topics[1]) /\ ~IconComplete(Topics[2])

Listing == call.fn \in {"lite_search", "images", "news"}
StartsWith(longer, shorter) ==
    /\ Len(shorter) <= Len(longer)
    /\ \A i \in 1..Len(shorter) : longer[i] = shorter[i]

\* C27: the accumulator of lite_search, images and news is append-only:
\* what is accumulated at one step is a prefix of what is accumulated at
\* the next (so of every later one), the rows of a lite document scraped
\* so far give a prefix of the list scraped from all of them, and the
\* list returned is the final accumulator.
C27_AppendOnly ==
    [][/\ StartsWith(results', results)
       /\ (Listing /\ pc = "done" /\ ret.kind = "ok")' => (ret.value = results)'
       /\ LiteScraped' =>
              \A k \in 0..Len(served'[1].body) :
                  StartsWith(results',
                             ScrapeRows(<<>>, SubSeq(served'[1].body, 1, k), call'.limit))
      ]_vars

\* Three pages that each added a record, returned in that order.
C27_Witness ==
    /\ Paged /\ pc = "done" /\ ret = Ok(results)
    /\ Len(PagesServed) = 3 /\ Len(results) >= 3
    /\ \A k \in 1..3 : Len(ItemsOf(PagesServed[k])) >= 1

TextOnly(topic) == topic.text.some /\ ~topic.first_url.some
UrlOnly(topic) == ~topic.text.some /\ topic.first_url.some
Complete == {k \in Window : Topics[k].text.some /\ Topics[k].first_url.some}

\* C28: a topic inside the limit window is printed if and only if both
\* its text and its first_url are present; a topic with a text but no
\* first_url, or a first_url but no text, is skipped like a topic with
\* neither: it has no numbered line and no URL or separator line.
C28_PrintedIffTextAndUrl ==
    Printed =>
        /\ \A k \in Window : k \in TopicNumbers <=> k \in Complete
        /\ \A k \in Window : (TextOnly(Topics[k]) \/ UrlOnly(Topics[k])) => k \notin TopicNumbers
        /\ Cardinality(LinesOf("topic")) = Cardinality(Complete)
        /\ Cardinality(LinesOf("URL")) = Cardinality(Complete)
        /\ Cardinality(LinesOf("separator")) = Cardinality(Complete)

\* Detailed mode, a topic with a text only and a topic with a first_url
\* only, both inside the window: no topic, URL or separator line.
C28_Witness ==
    /\ Printed /\ call.detailed /\ Len(Topics) = 2 /\ Window = {1, 2}
    /\ TextOnly(Topics[1]) /\ UrlOnly(Topics[2])
    /\ LinesOf("topic") = {} /\ LinesOf("URL") = {} /\ LinesOf("separator") = {}

====
